---- MODULE Spec2Model ----
(***************************************************************************)
(* The two segmented controls of assets/main.js: the capabilities tabs     *)
(* (section J, initCapabilitiesTabs) and the do/don't contrast switcher    *)
(* (the last IIFE of the file).  The two controls share no variable, so a  *)
(* behaviour follows one of them: `widget` says which.                     *)
(*                                                                         *)
(* Init (of Spec) is the state the constructors leave for markup that has  *)
(* every element they look up and at least one item (and, for the tabs, at *)
(* least one panel).  SpecLoad starts from the host markup, which may lack *)
(* any of these, and runs the constructor as its first step.               *)
(*                                                                         *)
(* Items and panels are numbered from 0 as in the JavaScript arrays; -1 is *)
(* the result of a failed findIndex / querySelector.                       *)
(***************************************************************************)
EXTENDS Integers, FiniteSets, Sequences, TLC

\* ------------------------------------------------------------- bounds
MaxWords == 2
MaxWordLen == 3
MaxChars == 5
MaxLoads == 3
MaxScroll == 2
MaxMouse == 1
MaxQueue == 2
MaxBurst == 3
MaxItems == 3
MaxPanels == 3
MaxLayout == 1
MaxRun == 4
MaxWrites == 2

VARIABLES
  widget,    \* "tabs" or "toggle": the control this behaviour follows
  active,    \* active[i]: item i has class 'active'
  aria,      \* aria[i]: item i's aria-selected attribute
  tabIdx,    \* tabIdx[i]: item i's tabIndex
  hidden,    \* hidden[k]: panel k's hidden property
  isActive,  \* isActive[k]: panel k has class 'is-active'
  ind,       \* the indicator's inline style: [width, x] (x of translateX)
  layout,    \* the layout the host's layout engine currently reports
  focus,     \* index of the focused item, -1 when focus is elsewhere
  pointer,   \* -2 outside the container, -1 on the container off every item, else the item
  threw,     \* a handler ended in an uncaught TypeError
  writes,    \* writes of the indicator's style since the last animation frame
  ev,        \* the event handled last: [type, arg]
  lastSet,   \* the index passed to the most recent setActive call
  phase,     \* "markup" before the constructor has run, then "ready"
  present,   \* which of "wrap" (the container) and "indicator" the markup has
  listeners, \* the event listeners the constructor registered
  run,       \* the current run of identical navigation keys: [key, start, len]
  pre        \* before the last event: [pointer, set, active], set the index the
             \* event before it passed to setActive, -1 if it called none; before
             \* construction `active` is the host markup's

\* The scroll helper with the progress bar and the parallax hero (sections
\* A-C), which share no variable with the controls.
VARIABLES
  hasBar,       \* the page has a .progress element
  hasLayers,    \* the page has .layer elements and motion is not reduced
  scrollHeight, \* scrollHeight - clientHeight of the document
  scrollTop,    \* the document's scroll position
  ticking,      \* the helper's flag: a frame callback is scheduled
  rafQueue,     \* the callbacks requestAnimationFrame holds for the next frame
  bar,          \* the progress bar's scaleX, in percent
  state,        \* the parallax's state: [scrollY, mouse]
  painted,      \* the scroll and mouse position the layers' transforms show
  burst,        \* scroll events since the last frame
  owed,         \* the registered scroll functions that have not run since the
                \* last scroll event
  frame         \* the last frame: [ran, scrolls], ran[fn] the runs of callback fn
                \* in it, scrolls the scroll events that arrived before it

\* The mobile navigation (unnamed/part_000, "Mobile Navigation").
VARIABLES
  navReady,     \* .nav-toggle and #nav-links both exist: the listeners are on
  expanded,     \* the button's aria-expanded: "none" (absent), "true" or "false"
  linksOpen,    \* the link list has class 'open'
  htmlOverflow, \* document.documentElement.style.overflow
  bodyOverflow, \* document.body.style.overflow
  innerWidth,   \* window.innerWidth
  setOpenRan,   \* setOpen has been called
  navEv         \* the navigation event handled last

\* The first-visit intro (section L).  htmlOverflow is also its variable.
VARIABLES
  hasIntro,     \* the page has an #intro element
  introSeen,    \* localStorage['oky:introSeen']: "none" (null) or "true"
  forceIntro,   \* this load's query string has 'intro'
  intro,        \* the #intro element: "shown", "exit" (class 'exit'), "removed"
  prev,         \* the overflow the constructor saved, "unset" before it does
  timer,        \* the pending setTimeout: [fn, delay], fn "none" without one
  loads,        \* page loads so far
  before,       \* the root's overflow in this load's markup
  finished,     \* finish() has run in some load without ?intro
  introEv       \* the step taken last: "load", "finish" or "remove"

\* The typewriter (section I).  A word is modelled by its length, the text
\* by the word it is taken from and its length.
VARIABLES
  words,        \* the lengths of the words of data-words
  ti,           \* the closure's i, the word counter, kept modulo words.length
  tj,           \* the closure's j, the character counter
  deleting,     \* the closure's deleting
  text,         \* el.textContent: [word, len]
  typeDelay,    \* the delay of the pending setTimeout(tick, ...)
  lastFull      \* the word displayed in full most recently, 0 before any was

dom == <<active, aria, tabIdx, hidden, isActive>>
control == <<widget, active, aria, tabIdx, hidden, isActive, ind, layout, focus,
             pointer, threw, writes, ev, lastSet, phase, present, listeners, run, pre>>
scrolling == <<hasBar, hasLayers, scrollHeight, scrollTop, ticking, rafQueue, bar,
               state, painted, burst, owed, frame>>
nav == <<navReady, expanded, linksOpen, htmlOverflow, bodyOverflow, innerWidth,
         setOpenRan, navEv>>
splash == <<hasIntro, introSeen, forceIntro, intro, prev, timer, loads, before,
            finished, introEv>>
typing == <<words, ti, tj, deleting, text, typeDelay, lastFull>>
vars == <<control, scrolling, nav, splash, typing>>

\* A page without the progress bar and the parallax layers.
Callbacks == {"update", "parallax", "paint"}
NoFrame == [ran |-> [fn \in Callbacks |-> 0], scrolls |-> 0]
ScrollAbsent ==
  /\ hasBar = FALSE
  /\ hasLayers = FALSE
  /\ scrollHeight = 0
  /\ scrollTop = 0
  /\ ticking = FALSE
  /\ rafQueue = <<>>
  /\ bar = 0
  /\ state = [scrollY |-> 0, mouse |-> 0]
  /\ painted = [scrollY |-> 0, mouse |-> 0]
  /\ burst = 0
  /\ owed = {}
  /\ frame = NoFrame

\* A page without the typewriter.
TypingAbsent ==
  /\ words = <<>>
  /\ ti = 0
  /\ tj = 0
  /\ deleting = FALSE
  /\ text = [word |-> 0, len |-> 0]
  /\ typeDelay = 0
  /\ lastFull = 0

\* A page without the intro.
NoTimer == [fn |-> "none", delay |-> 0]
IntroAbsent ==
  /\ hasIntro = FALSE
  /\ introSeen = "none"
  /\ forceIntro = FALSE
  /\ intro = "removed"
  /\ prev = "unset"
  /\ timer = NoTimer
  /\ loads = 1
  /\ before = ""
  /\ finished = FALSE
  /\ introEv = "load"

\* A page without the mobile navigation.
NavAbsent ==
  /\ navReady = FALSE
  /\ expanded = "none"
  /\ linksOpen = FALSE
  /\ htmlOverflow = ""
  /\ bodyOverflow = ""
  /\ innerWidth = 0
  /\ setOpenRan = FALSE
  /\ navEv = "none"

Widgets == {"tabs", "toggle"}
Layouts == 0..MaxLayout
NItems == Cardinality(DOMAIN active)
NPanels == Cardinality(DOMAIN hidden)
Items == DOMAIN active

\* ------------------------------------------------------------- host layout
\* What the layout engine reports for item i under layout l.  Under every
\* layout one item of three is not laid out (zero width).
paddingLeft == 4
itemWidth(l, i) == ((i + l) % 3) * 10
wrapLeft(l) == 8 + 5 * l
scrollLeft(l) == 3 * l

RECURSIVE widthBefore(_, _)
widthBefore(l, i) == IF i <= 0 THEN 0 ELSE widthBefore(l, i - 1) + itemWidth(l, i - 1)

\* el.offsetLeft: from the container's padding edge
offsetLeft(l, i) == paddingLeft + widthBefore(l, i)
\* el.getBoundingClientRect().left: in viewport coordinates
rectLeft(l, i) == wrapLeft(l) - scrollLeft(l) + offsetLeft(l, i)

\* ------------------------------------------------------------- helpers
\* Array.prototype.findIndex(p => p.classList.contains('active')), and the
\* index of the element querySelector('.active') returns.
findIndex(f) ==
  IF \E i \in DOMAIN f : f[i]
    THEN CHOOSE i \in DOMAIN f : f[i] /\ \A k \in DOMAIN f : f[k] => i <= k
    ELSE -1

ActiveIndex == findIndex(active)

\* NaN, which is === to no index and indexes no array element.
NaN == -99

\* JavaScript's %: the sign of the dividend, NaN for a zero divisor.
JsMod(a, n) == IF n = 0 THEN NaN ELSE IF a >= 0 THEN a % n ELSE -((-a) % n)

nextIndexNoWrap(curr, n) == curr + 1
nextIndex(curr, n) == JsMod(curr + 1, n)

prevIndexNoWrap(curr, n) == curr - 1
prevIndex(curr, n) == JsMod(curr - 1 + n, n)

\* classList.toggle('active', on) over all items
markAddOnly(old, index) == [i \in DOMAIN old |-> old[i] \/ i = index]
markFlip(old, index) == [i \in DOMAIN old |-> IF i = index THEN ~old[i] ELSE FALSE]
markItems(old, index) == [i \in DOMAIN old |-> i = index]

\* setAttribute('aria-selected', String(on))
ariaAllTrue(old, index) == [i \in DOMAIN old |-> "true"]
ariaItems(old, index) == [i \in DOMAIN old |-> IF i = index THEN "true" ELSE "false"]
\* p.tabIndex = on ? 0 : -1
tabAllReachable(old, index) == [i \in DOMAIN old |-> 0]
tabItems(old, index) == [i \in DOMAIN old |-> IF i = index THEN 0 ELSE -1]

\* panel.hidden = !on
hidePanelsShifted(old, index) == [k \in DOMAIN old |-> ~(k + 1 = index)]
hidePanels(old, index) == [k \in DOMAIN old |-> ~(k = index)]
\* panel.classList.toggle('is-active', on)
markPanels(old, index) == [k \in DOMAIN old |-> k = index]

\* panelDo.hidden = !showDo; panelDont.hidden = showDo   (0: do, 1: don't)
hideDoDontSame(index) == [k \in {0, 1} |-> ~(index = 0)]
hideDoDont(index) == [k \in {0, 1} |-> IF k = 0 THEN ~(index = 0) ELSE index = 0]

\* The style moveUnderline writes for pill el under layout l.
underlineNoScroll(l, el) == [width |-> itemWidth(l, el), x |-> rectLeft(l, el) - wrapLeft(l)]
underlineOf(l, el) ==
  [width |-> itemWidth(l, el), x |-> rectLeft(l, el) - wrapLeft(l) + scrollLeft(l)]

\* The style moveThumb writes for segment el under layout l.
thumbOf(l, el) == [width |-> itemWidth(l, el), x |-> offsetLeft(l, el) - paddingLeft]

\* ------------------------------------------------------------- indicator
\* moveUnderline(el): pills[index] or $('.pill.active') may be absent (el = -1
\* or out of range); the tabs' moveUnderline then reads a property of
\* null/undefined.
moveUnderline(l, el) ==
  IF el \in Items
    THEN /\ writes < MaxWrites
         /\ ind' = underlineOf(l, el)
         /\ writes' = writes + 1
         /\ threw' = threw
    ELSE ind' = ind /\ writes' = writes /\ threw' = TRUE

\* moveThumb(el): returns early on a missing element; with no .seg-underline
\* in the markup, thumb is null and thumb.style throws.
moveThumb(l, el) ==
  IF el \notin Items THEN UNCHANGED <<ind, writes, threw>>
  ELSE IF "indicator" \in present
    THEN /\ writes < MaxWrites
         /\ ind' = thumbOf(l, el)
         /\ writes' = writes + 1
         /\ threw' = threw
  ELSE ind' = ind /\ writes' = writes /\ threw' = TRUE

\* ------------------------------------------------------------- setActive
tabsSetActive(l, index) ==
  /\ active' = markItems(active, index)
  /\ aria' = ariaItems(aria, index)
  /\ tabIdx' = tabItems(tabIdx, index)
  /\ hidden' = hidePanels(hidden, index)
  /\ isActive' = markPanels(isActive, index)
  /\ moveUnderline(l, index)
  /\ lastSet' = index

\* hidden is defined on the panels the markup has (0: #do-panel, 1:
\* #dont-panel); writing .hidden of a missing one throws and ends the call.
toggleSetActive(l, index) ==
  /\ active' = markItems(active, index)
  /\ IF DOMAIN hidden = {0, 1}
       THEN hidden' = hideDoDont(index) /\ moveThumb(l, index)
       ELSE /\ hidden' = [k \in DOMAIN hidden \ {1} |-> hideDoDont(index)[k]]
            /\ ind' = ind
            /\ writes' = writes
            /\ threw' = TRUE
  /\ lastSet' = index
  /\ UNCHANGED <<aria, tabIdx, isActive>>

setActive(l, index) ==
  IF widget = "tabs" THEN tabsSetActive(l, index) ELSE toggleSetActive(l, index)

NoRun == [key |-> "none", start |-> -1, len |-> 0]

\* The events that call setActive.
SetEvents == {"init", "click", "ArrowRight", "ArrowLeft"}

\* Every event records what it found.
Hist ==
  pre' = [pointer |-> pointer,
          set |-> IF ev.type \in SetEvents THEN lastSet ELSE -1,
          active |-> active]

\* ------------------------------------------------------------- construction
\* The listeners each constructor registers when it runs to its end.
TabsListeners == {"click", "hover", "keydown", "resize"}
ToggleListeners == {"click", "keydown", "resize"}

\* The state each constructor leaves, for markup with n items of which the
\* items of `marked` carry class 'active', p panels, laid out as l.
initialIndexRaw(marked) == findIndex(marked)
initialIndexZero(marked) == 0
initialIndex(marked) == IF findIndex(marked) >= 0 THEN findIndex(marked) ELSE 0

InitTabs(n, p, marked, l) ==
  LET index == initialIndex(marked) IN
  /\ widget = "tabs"
  /\ active = markItems(marked, index)
  /\ aria = ariaItems(marked, index)
  /\ tabIdx = tabItems(marked, index)
  /\ hidden = hidePanels([k \in 0..(p - 1) |-> FALSE], index)
  /\ isActive = markPanels([k \in 0..(p - 1) |-> FALSE], index)
  /\ ind = underlineOf(l, index)
  /\ layout = l
  /\ lastSet = index
  /\ ev = [type |-> "init", arg |-> index]
  /\ pre = [pointer |-> -2, set |-> -1, active |-> marked]

InitToggle(n, marked, l) ==
  LET index == initialIndex(marked) IN
  /\ widget = "toggle"
  /\ active = markItems(marked, index)
  /\ aria = [i \in 0..(n - 1) |-> "absent"]
  /\ tabIdx = [i \in 0..(n - 1) |-> 0]
  /\ hidden = hideDoDont(index)
  /\ isActive = [k \in {0, 1} |-> FALSE]
  /\ ind = thumbOf(l, index)
  /\ layout = l
  /\ lastSet = index
  /\ ev = [type |-> "init", arg |-> index]
  /\ pre = [pointer |-> -2, set |-> -1, active |-> marked]

Init ==
  /\ \E n \in 1..MaxItems, l \in Layouts :
       \E marked \in [0..(n - 1) -> BOOLEAN] :
         \/ \E p \in 1..MaxPanels : InitTabs(n, p, marked, l)
         \/ InitToggle(n, marked, l)
  /\ focus = -1
  /\ pointer = -2
  /\ threw = FALSE
  /\ writes = 1
  /\ phase = "ready"
  /\ present = {"wrap", "indicator"}
  /\ listeners = IF widget = "tabs" THEN TabsListeners ELSE ToggleListeners
  /\ run = NoRun
  /\ ScrollAbsent
  /\ NavAbsent
  /\ IntroAbsent
  /\ TypingAbsent

\* ------------------------------------------------------------- events
\* pill.addEventListener('click', () => setActive(i)).  Whether a click moves
\* focus onto the clicked button is the browser's choice.
Click(i) ==
  /\ phase = "ready"
  /\ i \in Items
  /\ IF "click" \in listeners THEN setActive(layout, i)
                             ELSE UNCHANGED <<dom, ind, writes, threw, lastSet>>
  /\ focus' \in {focus, i}
  /\ ev' = [type |-> "click", arg |-> i]
  /\ run' = NoRun
  /\ Hist
  /\ UNCHANGED <<scrolling, nav, splash, typing>>
  /\ UNCHANGED <<widget, layout, pointer, phase, present, listeners>>

\* wrap.addEventListener('keydown', ...): the event reaches the container only
\* from a focused item (or, when there is no item, from another focusable
\* element of the container, focus = -2).  The tabs focus the new pill, the
\* toggle does not.
KeyArrow(key) ==
  LET curr == ActiveIndex
      index == IF key = "ArrowRight" THEN nextIndex(curr, NItems)
                                     ELSE prevIndex(curr, NItems)
  IN
  /\ phase = "ready"
  /\ focus \in Items \cup {-2}
  /\ ~(run.key = key /\ run.len >= MaxRun)
  /\ IF "keydown" \in listeners
       THEN /\ setActive(layout, index)
            /\ focus' = IF widget = "tabs" /\ index \in Items THEN index ELSE focus
       ELSE UNCHANGED <<dom, ind, writes, threw, lastSet, focus>>
  /\ ev' = [type |-> key, arg |-> index]
  /\ run' = IF run.key = key THEN [run EXCEPT !.len = @ + 1]
                             ELSE [key |-> key, start |-> curr, len |-> 1]
  /\ Hist
  /\ UNCHANGED <<scrolling, nav, splash, typing>>
  /\ UNCHANGED <<widget, layout, pointer, phase, present, listeners>>

KeyRight == KeyArrow("ArrowRight")
KeyLeft == KeyArrow("ArrowLeft")

KeyOtherAdvances ==
  /\ phase = "ready"
  /\ focus \in Items
  /\ setActive(layout, nextIndex(ActiveIndex, NItems))
  /\ ev' = [type |-> "key", arg |-> -1]
  /\ run' = NoRun
  /\ Hist
  /\ UNCHANGED <<scrolling, nav, splash, typing>>
  /\ UNCHANGED <<widget, layout, focus, pointer, phase, present, listeners>>

\* Any other key: neither `if` of the keydown handler matches.
KeyOther ==
  /\ phase = "ready"
  /\ focus \in Items \cup {-2}
  /\ ev' = [type |-> "key", arg |-> -1]
  /\ run' = NoRun
  /\ Hist
  /\ UNCHANGED <<scrolling, nav, splash, typing>>
  /\ UNCHANGED <<widget, dom, ind, writes, layout, focus, pointer, threw, lastSet, phase, present, listeners>>

PointerEnterItemActivates(to) ==
  /\ phase = "ready"
  /\ to \in Items
  /\ to # pointer
  /\ pointer' = to
  /\ setActive(layout, to)
  /\ ev' = [type |-> "mouseenter", arg |-> to]
  /\ run' = NoRun
  /\ Hist
  /\ UNCHANGED <<scrolling, nav, splash, typing>>
  /\ UNCHANGED <<widget, layout, focus, phase, present, listeners>>

\* The pointer moves onto item `to`: mouseenter is dispatched at the pill and
\* the container's capturing listener sees it (tabs only; the toggle has no
\* hover listener).
PointerEnterItem(to) ==
  /\ phase = "ready"
  /\ to \in Items
  /\ to # pointer
  /\ pointer' = to
  /\ IF "hover" \in listeners THEN moveUnderline(layout, to) ELSE UNCHANGED <<ind, writes, threw>>
  /\ ev' = [type |-> "mouseenter", arg |-> to]
  /\ run' = NoRun
  /\ Hist
  /\ UNCHANGED <<scrolling, nav, splash, typing>>
  /\ UNCHANGED <<widget, dom, layout, focus, lastSet, phase, present, listeners>>

\* The pointer moves onto the container off every item.  Coming from outside,
\* mouseenter targets the container and closest('.pill') is null; coming from
\* an item, mouseleave targets that pill, and the container's mouseleave
\* listener (not capturing, the event does not bubble) is not run.
PointerToGap ==
  /\ phase = "ready"
  /\ "wrap" \in present
  /\ pointer # -1
  /\ pointer' = -1
  /\ ev' = IF pointer = -2 THEN [type |-> "mouseenter", arg |-> -1]
                           ELSE [type |-> "mouseleave", arg |-> pointer]
  /\ run' = NoRun
  /\ Hist
  /\ UNCHANGED <<scrolling, nav, splash, typing>>
  /\ UNCHANGED <<widget, dom, ind, writes, layout, focus, threw, lastSet, phase, present, listeners>>

PointerLeaveKeeps ==
  /\ phase = "ready"
  /\ "wrap" \in present
  /\ pointer # -2
  /\ pointer' = -2
  /\ ev' = [type |-> "mouseleave", arg |-> -1]
  /\ run' = NoRun
  /\ Hist
  /\ UNCHANGED <<scrolling, nav, splash, typing>>
  /\ UNCHANGED <<widget, dom, ind, writes, threw, layout, focus, lastSet, phase, present, listeners>>

\* The pointer leaves the container: mouseleave targets the container and
\* the tabs' listener runs moveUnderline($('.pill.active', wrap)).
PointerLeave ==
  /\ phase = "ready"
  /\ "wrap" \in present
  /\ pointer # -2
  /\ pointer' = -2
  /\ IF "hover" \in listeners THEN moveUnderline(layout, ActiveIndex)
                            ELSE UNCHANGED <<ind, writes, threw>>
  /\ ev' = [type |-> "mouseleave", arg |-> -1]
  /\ run' = NoRun
  /\ Hist
  /\ UNCHANGED <<scrolling, nav, splash, typing>>
  /\ UNCHANGED <<widget, dom, layout, focus, lastSet, phase, present, listeners>>

ResizeCoalesced(l) ==
  /\ phase = "ready"
  /\ l \in Layouts
  /\ layout' = l
  /\ IF writes > 0 THEN UNCHANGED <<ind, threw, writes>>
     ELSE IF widget = "tabs" THEN moveUnderline(l, ActiveIndex)
     ELSE moveThumb(l, ActiveIndex)
  /\ ev' = [type |-> "resize", arg |-> -1]
  /\ run' = NoRun
  /\ Hist
  /\ UNCHANGED <<scrolling, nav, splash, typing>>
  /\ UNCHANGED <<widget, dom, focus, pointer, lastSet, phase, present, listeners>>

\* A resize that recomputes against the item under the pointer.
ResizeKeepsPreview(l) ==
  LET el == IF pointer \in Items THEN pointer ELSE ActiveIndex IN
  /\ phase = "ready"
  /\ l \in Layouts
  /\ layout' = l
  /\ IF "resize" \notin listeners THEN UNCHANGED <<ind, writes, threw>>
     ELSE IF widget = "tabs" THEN moveUnderline(l, el)
     ELSE moveThumb(l, el)
  /\ ev' = [type |-> "resize", arg |-> -1]
  /\ run' = NoRun
  /\ Hist
  /\ UNCHANGED <<scrolling, nav, splash, typing>>
  /\ UNCHANGED <<widget, dom, focus, pointer, lastSet, phase, present, listeners>>

\* window 'resize': the layout engine reports layout l when the listener reads it.
Resize(l) ==
  /\ phase = "ready"
  /\ l \in Layouts
  /\ layout' = l
  /\ IF "resize" \notin listeners THEN UNCHANGED <<ind, writes, threw>>
     ELSE IF widget = "tabs" THEN moveUnderline(l, ActiveIndex)
     ELSE moveThumb(l, ActiveIndex)
  /\ ev' = [type |-> "resize", arg |-> -1]
  /\ run' = NoRun
  /\ Hist
  /\ UNCHANGED <<scrolling, nav, splash, typing>>
  /\ UNCHANGED <<widget, dom, focus, pointer, lastSet, phase, present, listeners>>

\* The user moves focus with Tab (only onto items with tabIndex >= 0) or away
\* from the control; in a container without items, onto another focusable
\* element of it (-2).
Focus(i) ==
  /\ phase = "ready"
  /\ i # focus
  /\ \/ i = -1
     \/ i \in Items /\ tabIdx[i] >= 0
     \/ i = -2 /\ NItems = 0 /\ "wrap" \in present
  /\ focus' = i
  /\ ev' = [type |-> "focus", arg |-> i]
  /\ run' = NoRun
  /\ Hist
  /\ UNCHANGED <<scrolling, nav, splash, typing>>
  /\ UNCHANGED <<widget, dom, ind, writes, layout, pointer, threw, lastSet, phase, present, listeners>>

\* An animation frame is painted: the style written last is what shows.
Frame ==
  /\ phase = "ready"
  /\ writes > 0
  /\ writes' = 0
  /\ ev' = [type |-> "frame", arg |-> -1]
  /\ Hist
  /\ UNCHANGED <<scrolling, nav, splash, typing>>
  /\ UNCHANGED <<widget, dom, ind, threw, layout, focus, pointer, lastSet, phase, present,
                 listeners, run>>

Next ==
  \/ \E i \in 0..(MaxItems - 1) : Click(i)
  \/ KeyRight
  \/ KeyLeft
  \/ KeyOther
  \/ \E to \in 0..(MaxItems - 1) : PointerEnterItem(to)
  \/ PointerToGap
  \/ PointerLeave
  \/ \E l \in Layouts : Resize(l)
  \/ \E i \in -2..(MaxItems - 1) : Focus(i)
  \/ Frame

Spec == Init /\ [][Next]_vars

\* ------------------------------------------------------------- page load
\* The inline style of an indicator no script has written.
NoStyle == [width |-> -1, x |-> 0]

\* The constructor returned at its guard: nothing registered, nothing written.
constructNothing ==
  /\ listeners' = {}
  /\ ev' = [type |-> "load", arg |-> -1]
  /\ UNCHANGED <<dom, ind, writes, threw, lastSet>>

\* initCapabilitiesTabs: if (!wrap || !pills.length || !panels.length || !underline) return;
constructTabs ==
  IF "wrap" \in present /\ NItems > 0 /\ NPanels > 0 /\ "indicator" \in present
    THEN /\ tabsSetActive(layout, initialIndex(active))
         /\ listeners' = TabsListeners
         /\ ev' = [type |-> "init", arg |-> initialIndex(active)]
    ELSE constructNothing

\* The contrast switcher: if (!wrap) return; the click and keydown listeners
\* are registered before setActive(initial), the resize listener after it.
constructToggle ==
  IF "wrap" \in present
    THEN /\ toggleSetActive(layout, initialIndex(active))
         /\ listeners' = IF threw' THEN {"click", "keydown"} ELSE ToggleListeners
         /\ ev' = [type |-> "init", arg |-> initialIndex(active)]
    ELSE constructNothing

Construct ==
  /\ phase = "markup"
  /\ phase' = "ready"
  /\ IF widget = "tabs" THEN constructTabs ELSE constructToggle
  /\ run' = NoRun
  /\ Hist
  /\ UNCHANGED <<scrolling, nav, splash, typing>>
  /\ UNCHANGED <<widget, layout, focus, pointer, present>>

\* The host markup: any number of items and panels, any of them marked or
\* hidden; without the container there are no items and no indicator in it.
InitLoad ==
  /\ widget \in Widgets
  /\ present \in {{}, {"wrap"}, {"wrap", "indicator"}}
  /\ \E n \in 0..MaxItems :
       /\ "wrap" \notin present => n = 0
       /\ active \in [0..(n - 1) -> BOOLEAN]
       /\ aria = [i \in 0..(n - 1) |-> "absent"]
       /\ tabIdx = [i \in 0..(n - 1) |-> 0]
  /\ \E panels \in IF widget = "tabs" THEN {0..(p - 1) : p \in 0..MaxPanels}
                                       ELSE SUBSET {0, 1} :
       /\ hidden \in [panels -> BOOLEAN]
       /\ isActive = [k \in panels |-> FALSE]
  /\ ind = NoStyle
  /\ layout \in Layouts
  /\ focus = -1
  /\ pointer = -2
  /\ threw = FALSE
  /\ writes = 0
  /\ ev = [type |-> "markup", arg |-> -1]
  /\ lastSet = -1
  /\ phase = "markup"
  /\ listeners = {}
  /\ run = NoRun
  /\ pre = [pointer |-> -2, set |-> -1, active |-> active]
  /\ ScrollAbsent
  /\ NavAbsent
  /\ IntroAbsent
  /\ TypingAbsent

NextLoad ==
  \/ Construct
  \/ \E i \in 0..(MaxItems - 1) : Click(i)
  \/ KeyRight
  \/ KeyLeft
  \/ KeyOther
  \/ \E to \in 0..(MaxItems - 1) : PointerEnterItem(to)
  \/ PointerToGap
  \/ PointerLeave
  \/ \E l \in Layouts : Resize(l)
  \/ \E i \in -2..(MaxItems - 1) : Focus(i)
  \/ Frame

SpecLoad == InitLoad /\ [][NextLoad]_vars

\* ------------------------------------------------------------- scroll helper
\* A page without either control.
ControlAbsent ==
  /\ widget = "tabs"
  /\ active = <<>>
  /\ aria = <<>>
  /\ tabIdx = <<>>
  /\ hidden = <<>>
  /\ isActive = <<>>
  /\ ind = NoStyle
  /\ layout = 0
  /\ focus = -1
  /\ pointer = -2
  /\ threw = FALSE
  /\ writes = 0
  /\ ev = [type |-> "markup", arg |-> -1]
  /\ lastSet = -1
  /\ phase = "markup"
  /\ present = {}
  /\ listeners = {}
  /\ run = NoRun
  /\ pre = [pointer |-> -2, set |-> -1, active |-> <<>>]

\* update's p = sh > 0 ? st / sh : 0, in percent.
progress(st, sh) == IF sh > 0 THEN (st * 100) \div sh ELSE 0

\* The scroll listeners in registration order: initProgressBar runs before
\* initParallaxHero, and each registers through onScroll only when its
\* elements exist.
scrollListeners ==
  (IF hasBar THEN <<"update">> ELSE <<>>) \o (IF hasLayers THEN <<"parallax">> ELSE <<>>)

\* A listener that requests a frame for fn on every event.
scrollListenerUnbatched(fn, s) == [ticking |-> TRUE, queue |-> Append(s.queue, fn)]

\* The listener onScroll(fn) registers, on s = [ticking, queue]:
\* if (!ticking) { requestAnimationFrame(() => { fn(); ticking = false; }); ticking = true; }
scrollListener(fn, s) ==
  IF ~s.ticking THEN [ticking |-> TRUE, queue |-> Append(s.queue, fn)] ELSE s

\* The dispatch of one scroll event to the listeners, in registration order.
RECURSIVE dispatch(_, _)
dispatch(fns, s) ==
  IF fns = <<>> THEN s ELSE dispatch(Tail(fns), scrollListener(Head(fns), s))

\* One frame callback on s = [bar, state, painted, ticking, ran, owed]: the
\* function, then ticking = false.  "update" is the progress bar's update,
\* "parallax" the parallax's scroll callback (reads the scroll position, then
\* paints), "paint" the mousemove handler's callback.
callback(fn, s) ==
  LET st == IF fn = "parallax" THEN [s.state EXCEPT !.scrollY = scrollTop] ELSE s.state IN
  [bar |-> IF fn = "update" THEN progress(scrollTop, scrollHeight) ELSE s.bar,
   state |-> st,
   painted |-> IF fn = "update" THEN s.painted ELSE st,
   ticking |-> FALSE,
   ran |-> [s.ran EXCEPT ![fn] = @ + 1],
   owed |-> s.owed \ {fn}]

\* The browser runs the frame's callbacks in the order they were requested.
RECURSIVE runCallbacks(_, _)
runCallbacks(q, s) ==
  IF q = <<>> THEN s ELSE runCallbacks(Tail(q), callback(Head(q), s))

\* A scroll event with the document now scrolled to y.
Scroll(y) ==
  LET s == dispatch(scrollListeners, [ticking |-> ticking, queue |-> rafQueue]) IN
  /\ y \in 0..scrollHeight
  /\ burst < MaxBurst
  /\ Len(s.queue) <= MaxQueue
  /\ scrollTop' = y
  /\ ticking' = s.ticking
  /\ rafQueue' = s.queue
  /\ burst' = burst + 1
  /\ owed' = {scrollListeners[k] : k \in DOMAIN scrollListeners}
  /\ UNCHANGED <<hasBar, hasLayers, scrollHeight, bar, state, painted, frame>>
  /\ UNCHANGED <<control, nav, splash, typing>>

\* The parallax's mousemove listener, with the pointer at m.
MouseMove(m) ==
  /\ hasLayers
  /\ m \in 0..MaxMouse
  /\ state' = [state EXCEPT !.mouse = m]
  /\ IF ~ticking
       THEN /\ Len(rafQueue) < MaxQueue
            /\ rafQueue' = Append(rafQueue, "paint")
            /\ ticking' = TRUE
       ELSE UNCHANGED <<rafQueue, ticking>>
  /\ UNCHANGED <<hasBar, hasLayers, scrollHeight, scrollTop, bar, painted, burst, owed, frame>>
  /\ UNCHANGED <<control, nav, splash, typing>>

\* An animation frame: the requested callbacks run, and the list is empty
\* for the next frame.
AnimationFrame ==
  LET s == runCallbacks(rafQueue, [bar |-> bar, state |-> state, painted |-> painted,
                                   ticking |-> ticking, ran |-> NoFrame.ran,
                                   owed |-> owed]) IN
  /\ bar' = s.bar
  /\ state' = s.state
  /\ painted' = s.painted
  /\ ticking' = s.ticking
  /\ rafQueue' = <<>>
  /\ frame' = [ran |-> s.ran, scrolls |-> burst]
  /\ burst' = 0
  /\ owed' = s.owed
  /\ UNCHANGED <<hasBar, hasLayers, scrollHeight, scrollTop>>
  /\ UNCHANGED <<control, nav, splash, typing>>

\* After the script has run: update() once when the bar exists, and the
\* parallax's first paint when the layers exist.
InitScroll ==
  /\ hasBar \in BOOLEAN
  /\ hasLayers \in BOOLEAN
  /\ scrollHeight \in {0, MaxScroll}
  /\ scrollTop \in 0..scrollHeight
  /\ ticking = FALSE
  /\ rafQueue = <<>>
  /\ bar = IF hasBar THEN progress(scrollTop, scrollHeight) ELSE 0
  /\ state = [scrollY |-> IF hasLayers THEN scrollTop ELSE 0, mouse |-> 0]
  /\ painted = state
  /\ burst = 0
  /\ owed = {}
  /\ frame = NoFrame
  /\ ControlAbsent
  /\ NavAbsent
  /\ IntroAbsent
  /\ TypingAbsent

NextScroll ==
  \/ \E y \in 0..MaxScroll : Scroll(y)
  \/ \E m \in 0..MaxMouse : MouseMove(m)
  \/ AnimationFrame

SpecScroll == InitScroll /\ [][NextScroll]_vars

\* The browser keeps producing animation frames.
SpecScrollFair == SpecScroll /\ WF_vars(AnimationFrame)

\* ------------------------------------------------------------- mobile navigation
\* if (window.innerWidth > 768 ...
Desktop == 768
Widths == {Desktop - 1, Desktop, Desktop + 1}
Overflows == {"", "hidden"}

\* A lock that writes the root element only.
lockBodyRootOnly(on) ==
  /\ htmlOverflow' = IF on THEN "hidden" ELSE ""
  /\ bodyOverflow' = bodyOverflow

lockBody(on) ==
  /\ htmlOverflow' = IF on THEN "hidden" ELSE ""
  /\ bodyOverflow' = IF on THEN "hidden" ELSE ""

\* String(open)
String(open) == IF open THEN "true" ELSE "false"

setOpen(open) ==
  /\ expanded' = String(open)
  /\ linksOpen' = open
  /\ lockBody(open)
  /\ setOpenRan' = TRUE

\* The resize listener's body, also called once by the constructor.
onResize(w) ==
  IF w > Desktop /\ expanded = "true"
    THEN setOpen(FALSE)
    ELSE UNCHANGED <<expanded, linksOpen, htmlOverflow, bodyOverflow, setOpenRan>>

\* btn's click listener.
HamburgerClick ==
  /\ navReady
  /\ setOpen(expanded # "true")
  /\ navEv' = "hamburger"
  /\ UNCHANGED <<navReady, innerWidth>>
  /\ UNCHANGED <<control, scrolling, splash, typing>>

\* links' click listener; onAnchor: the target is inside an <a>.
LinksClick(onAnchor) ==
  /\ navReady
  /\ IF onAnchor THEN setOpen(FALSE)
     ELSE UNCHANGED <<expanded, linksOpen, htmlOverflow, bodyOverflow, setOpenRan>>
  /\ navEv' = IF onAnchor THEN "link" ELSE "links"
  /\ UNCHANGED <<navReady, innerWidth>>
  /\ UNCHANGED <<control, scrolling, splash, typing>>

\* A resize of the window to width w.
NavResize(w) ==
  /\ w \in Widths
  /\ innerWidth' = w
  /\ IF navReady THEN onResize(w)
     ELSE UNCHANGED <<expanded, linksOpen, htmlOverflow, bodyOverflow, setOpenRan>>
  /\ navEv' = "resize"
  /\ UNCHANGED navReady
  /\ UNCHANGED <<control, scrolling, splash, typing>>

\* After the script has run on markup m.  The constructor returns when the
\* button or the list is missing and else ends with onResize().
InitNav ==
  /\ navReady \in BOOLEAN
  /\ innerWidth \in Widths
  /\ \E m \in [expanded : {"none", "true", "false"}, open : BOOLEAN,
               html : Overflows, body : Overflows] :
       IF navReady /\ innerWidth > Desktop /\ m.expanded = "true"
         THEN /\ expanded = String(FALSE)
              /\ linksOpen = FALSE
              /\ htmlOverflow = ""
              /\ bodyOverflow = ""
              /\ setOpenRan = TRUE
         ELSE /\ expanded = m.expanded
              /\ linksOpen = m.open
              /\ htmlOverflow = m.html
              /\ bodyOverflow = m.body
              /\ setOpenRan = FALSE
  /\ navEv = "load"
  /\ ControlAbsent
  /\ ScrollAbsent
  /\ IntroAbsent
  /\ TypingAbsent

NextNav ==
  \/ HamburgerClick
  \/ \E onAnchor \in BOOLEAN : LinksClick(onAnchor)
  \/ \E w \in Widths : NavResize(w)

SpecNav == InitNav /\ [][NextNav]_vars

\* ------------------------------------------------------------- first-visit intro
\* setTimeout(finish, REDUCED ? 1000 : 5000)
finishDelay(reduced) == IF reduced THEN 1000 ELSE 5000

\* prev || ''
orEmpty(v) == IF v = "" THEN "" ELSE v

\* initIntroOnce on a page whose markup gives the root overflow ov, with the
\* query flag force and the stored flag seen: what the constructor leaves.
initIntroOnce(has, force, seen, ov, reduced) ==
  IF ~has
    THEN [intro |-> "removed", prev |-> "unset", overflow |-> ov, timer |-> NoTimer]
  ELSE IF ~force /\ seen = "true"
    THEN [intro |-> "removed", prev |-> "unset", overflow |-> ov, timer |-> NoTimer]
  ELSE [intro |-> "shown", prev |-> ov, overflow |-> "hidden",
        timer |-> [fn |-> "finish", delay |-> finishDelay(reduced)]]

\* A page load (a first visit, a reload, a later visit): a new document,
\* whose timers are new, while localStorage persists.
Load(has, force, ov, reduced) ==
  LET c == initIntroOnce(has, force, introSeen, ov, reduced) IN
  /\ loads < MaxLoads
  /\ loads' = loads + 1
  /\ hasIntro' = has
  /\ forceIntro' = force
  /\ before' = ov
  /\ intro' = c.intro
  /\ prev' = c.prev
  /\ htmlOverflow' = c.overflow
  /\ timer' = c.timer
  /\ introEv' = "load"
  /\ UNCHANGED <<introSeen, finished>>
  /\ UNCHANGED <<navReady, expanded, linksOpen, bodyOverflow, innerWidth, setOpenRan, navEv>>
  /\ UNCHANGED <<control, scrolling, typing>>

\* The first timer fires: finish().
Finish ==
  /\ timer.fn = "finish"
  /\ intro' = "exit"
  /\ timer' = [fn |-> "remove", delay |-> 550]
  /\ introSeen' = IF ~forceIntro THEN "true" ELSE introSeen
  /\ finished' = (finished \/ ~forceIntro)
  /\ introEv' = "finish"
  /\ UNCHANGED <<hasIntro, forceIntro, prev, loads, before, htmlOverflow>>
  /\ UNCHANGED <<navReady, expanded, linksOpen, bodyOverflow, innerWidth, setOpenRan, navEv>>
  /\ UNCHANGED <<control, scrolling, typing>>

\* A removal that clears the root's overflow.
RemoveClears ==
  /\ timer.fn = "remove"
  /\ intro' = "removed"
  /\ htmlOverflow' = ""
  /\ timer' = NoTimer
  /\ introEv' = "remove"
  /\ UNCHANGED <<hasIntro, introSeen, forceIntro, prev, loads, before, finished>>
  /\ UNCHANGED <<navReady, expanded, linksOpen, bodyOverflow, innerWidth, setOpenRan, navEv>>
  /\ UNCHANGED <<control, scrolling, typing>>

\* The second timer fires: intro.remove() and the overflow is put back.
Remove ==
  /\ timer.fn = "remove"
  /\ intro' = "removed"
  /\ htmlOverflow' = orEmpty(prev)
  /\ timer' = NoTimer
  /\ introEv' = "remove"
  /\ UNCHANGED <<hasIntro, introSeen, forceIntro, prev, loads, before, finished>>
  /\ UNCHANGED <<navReady, expanded, linksOpen, bodyOverflow, innerWidth, setOpenRan, navEv>>
  /\ UNCHANGED <<control, scrolling, typing>>

\* After the first load's constructor has run.
InitIntro ==
  /\ hasIntro \in BOOLEAN
  /\ forceIntro \in BOOLEAN
  /\ introSeen \in {"none", "true"}
  /\ before \in Overflows
  /\ \E reduced \in BOOLEAN :
       LET c == initIntroOnce(hasIntro, forceIntro, introSeen, before, reduced) IN
       /\ intro = c.intro
       /\ prev = c.prev
       /\ htmlOverflow = c.overflow
       /\ timer = c.timer
  /\ loads = 1
  /\ finished = FALSE
  /\ introEv = "load"
  /\ navReady = FALSE
  /\ expanded = "none"
  /\ linksOpen = FALSE
  /\ bodyOverflow = ""
  /\ innerWidth = 0
  /\ setOpenRan = FALSE
  /\ navEv = "none"
  /\ ControlAbsent
  /\ ScrollAbsent
  /\ TypingAbsent

NextIntro ==
  \/ \E has \in BOOLEAN, force \in BOOLEAN, ov \in Overflows, reduced \in BOOLEAN :
       Load(has, force, ov, reduced)
  \/ Finish
  \/ Remove

SpecIntro == InitIntro /\ [][NextIntro]_vars

\* Timers that are pending eventually fire.
SpecIntroFair == SpecIntro /\ WF_vars(Finish) /\ WF_vars(Remove)

\* ------------------------------------------------------------- typewriter
\* The length of word.slice(0, e) for a word of length n.
sliceLen(n, e) ==
  IF e < 0 THEN (IF n + e > 0 THEN n + e ELSE 0) ELSE IF e < n THEN e ELSE n

\* tick on the closure state s = [i, j, deleting] with the words w: the text
\* is sliced with the old j, the tests read the new one.  Sequences are
\* numbered from 1, so words[i % words.length] is w[s.i + 1].
tick(w, s) ==
  LET k == s.i + 1
      len == w[k]
      j == IF s.deleting THEN s.j - 1 ELSE s.j + 1
      doneTyping == j = len
      doneDeleting == j = 0 IN
  [i |-> IF ~doneTyping /\ doneDeleting THEN (s.i + 1) % Len(w) ELSE s.i,
   j |-> j,
   deleting |-> IF doneTyping THEN TRUE ELSE IF doneDeleting THEN FALSE ELSE s.deleting,
   text |-> [word |-> k, len |-> sliceLen(len, s.j)],
   delay |-> IF doneTyping THEN 900 ELSE IF doneDeleting THEN 400
             ELSE IF s.deleting THEN 40 ELSE 80]

\* The word the text shows in full, if it does: the text is the whole of a
\* word the typewriter has typed (the empty text of an empty word counts).
fullWord(w, t, was) == IF t.len = w[t.word] THEN t.word ELSE was

\* The pending timer fires.
Tick ==
  LET s == tick(words, [i |-> ti, j |-> tj, deleting |-> deleting]) IN
  /\ words # <<>>
  /\ tj < MaxChars
  /\ ti' = s.i
  /\ tj' = s.j
  /\ deleting' = s.deleting
  /\ text' = s.text
  /\ typeDelay' = s.delay
  /\ lastFull' = fullWord(words, s.text, lastFull)
  /\ UNCHANGED words
  /\ UNCHANGED <<control, scrolling, nav, splash>>

\* After initTypewriter: the closure starts at i = 0, j = 0, deleting = false
\* and calls tick() once.
InitTyping ==
  /\ words \in UNION {[1..n -> 0..MaxWordLen] : n \in 1..MaxWords}
  /\ LET s == tick(words, [i |-> 0, j |-> 0, deleting |-> FALSE]) IN
       /\ ti = s.i
       /\ tj = s.j
       /\ deleting = s.deleting
       /\ text = s.text
       /\ typeDelay = s.delay
       /\ lastFull = fullWord(words, s.text, 0)
  /\ ControlAbsent
  /\ ScrollAbsent
  /\ NavAbsent
  /\ IntroAbsent

NextTyping == Tick

SpecTyping == InitTyping /\ [][NextTyping]_vars

\* The pending timer eventually fires.
SpecTypingFair == SpecTyping /\ WF_vars(Tick)

\* ------------------------------------------------------------- properties
ActiveSet == {i \in Items : active[i]}
observable == <<active, aria, tabIdx, hidden, isActive, ind>>

\* The geometry the host reports for item i under the current layout, as
\* each control is to read it.
measuredIn(l, i) ==
  [width |-> itemWidth(l, i),
   x |-> IF widget = "tabs" THEN rectLeft(l, i) - wrapLeft(l) + scrollLeft(l)
                            ELSE offsetLeft(l, i) - paddingLeft]
measured(i) == measuredIn(layout, i)

\* C1: in every reachable state exactly one item carries 'active', and it is
\* the item whose index the most recent setActive call was given.
C1_ExactlyOneActive ==
  /\ Cardinality(ActiveSet) = 1
  /\ lastSet \in Items
  /\ active[lastSet]

C1_Witness ==
  /\ NItems = 3
  /\ ev.type = "resize"
  /\ pointer \in Items /\ pointer # lastSet
  /\ lastSet = 2

\* C2: every event is its own transition of the active index read from the
\* DOM: a click on i moves it to i, ArrowRight from c to (c+1) mod N, ArrowLeft
\* from c to (c-1+N) mod N, and a run of k equal arrow keys from c ends at
\* (c+k) mod N, resp. (c-k) mod N.
C2_StepForStep ==
  [][ /\ ev'.type = "click" => ActiveIndex' = ev'.arg
      /\ ev'.type = "ArrowRight" => ActiveIndex' = (ActiveIndex + 1) % NItems
      /\ ev'.type = "ArrowLeft" => ActiveIndex' = (ActiveIndex - 1 + NItems) % NItems
      /\ run'.key = "ArrowRight" => ActiveIndex' = (run'.start + run'.len) % NItems
      /\ run'.key = "ArrowLeft" => ActiveIndex' = (run'.start - run'.len) % NItems
    ]_vars

C2_Witness ==
  /\ NItems = 3
  /\ run.key = "ArrowRight"
  /\ run.len = 4
  /\ run.start = 1
  /\ ActiveIndex = 2

\* C3: N consecutive ArrowRight presses, and N consecutive ArrowLeft presses,
\* bring the active index back to where the run started.
C3_CyclicNavigation ==
  (run.key \in {"ArrowRight", "ArrowLeft"} /\ run.len = NItems) => ActiveIndex = run.start

C3_Witness ==
  /\ NItems = 3
  /\ run.key = "ArrowLeft"
  /\ run.len = 3
  /\ run.start = 1
  /\ ActiveIndex = 1

\* C4: a setActive(i) that directly follows a setActive(i), with the layout
\* unchanged in between, leaves markers, aria-selected, tabIndex, panels and
\* indicator as the first call left them.
C4_Idempotent ==
  [][ (ev.type \in SetEvents /\ ev'.type \in SetEvents /\ lastSet' = lastSet)
        => UNCHANGED observable ]_vars

C4_Witness ==
  /\ NItems >= 2
  /\ ev.type = "click"
  /\ pre.set = lastSet
  /\ lastSet = 1

\* C5: in the tabs, panel k is visible (not hidden, with 'is-active') exactly
\* when k is the active index, for every k below the number of panels, whether
\* or not there are as many panels as pills.
C5_IndexedPanels ==
  widget = "tabs" =>
    \A k \in DOMAIN hidden :
      /\ (~hidden[k]) <=> (k = ActiveIndex)
      /\ isActive[k] <=> (k = ActiveIndex)

C5_Witness ==
  /\ widget = "tabs"
  /\ NPanels < NItems
  /\ ActiveIndex >= NPanels
  /\ ev.type = "click"
  /\ \A k \in DOMAIN hidden : hidden[k]

\* C6: in the toggle, the do panel is visible exactly when the active index
\* is 0 and the don't panel exactly when it is not: one of the two is visible.
C6_BinaryPanels ==
  widget = "toggle" =>
    /\ (~hidden[0]) <=> (ActiveIndex = 0)
    /\ (~hidden[1]) <=> (ActiveIndex # 0)
    /\ hidden[0] # hidden[1]

C6_Witness ==
  /\ widget = "toggle"
  /\ NItems = 3
  /\ ActiveIndex = 2
  /\ ev.type = "ArrowLeft"
  /\ hidden[0] /\ ~hidden[1]

\* C7: a pointer-enter on an item other than the active one leaves the
\* active index, every marker, aria-selected, tabIndex and every panel as
\* they were: only the indicator may change.
C7_HoverIsPreview ==
  [][ (ev'.type = "mouseenter" /\ ev'.arg \in Items /\ ev'.arg # ActiveIndex)
        => /\ UNCHANGED <<active, aria, tabIdx, hidden, isActive, lastSet>>
           /\ ActiveIndex' = ActiveIndex ]_vars

C7_Witness ==
  /\ widget = "tabs"
  /\ ev.type = "mouseenter"
  /\ ev.arg \in Items /\ ev.arg # ActiveIndex
  /\ ind = measured(ev.arg)
  /\ ind # measured(ActiveIndex)

\* C8 as claimed: after the pointer leaves an item, to outside the container
\* or onto the container off every item, the indicator has the active item's
\* geometry.
C8_SnapBackOffItems ==
  (widget = "tabs" /\ ev.type = "mouseleave") => ind = measured(ActiveIndex)

\* C8 as amended: after the pointer leaves the container the indicator has
\* the active item's geometry.
C8_SnapBackOnLeave ==
  (widget = "tabs" /\ ev.type = "mouseleave" /\ ev.arg = -1) => ind = measured(ActiveIndex)

C8_Witness ==
  /\ widget = "tabs"
  /\ ev.type = "mouseleave" /\ ev.arg = -1
  /\ pre.pointer \in Items /\ pre.pointer # ActiveIndex
  /\ measured(pre.pointer) # measured(ActiveIndex)
  /\ ind = measured(ActiveIndex)

\* C9: when a setActive(i) has completed, the indicator's width is item i's
\* measured width and its offset item i's measured offset (tabs: pill.left -
\* wrap.left + wrap.scrollLeft; toggle: offsetLeft - paddingLeft); an item of
\* zero width gives a zero-width indicator at its offset, and no error.
C9_IndicatorGeometry ==
  ev.type \in SetEvents => (ind = measured(lastSet) /\ ~threw)

C9_Witness ==
  /\ ev.type = "click"
  /\ lastSet = 2
  /\ itemWidth(layout, lastSet) = 0
  /\ scrollLeft(layout) > 0
  /\ ind.width = 0 /\ ind.x > 0

\* C10: after an ArrowRight or ArrowLeft key press is handled, focus is on
\* the newly active item.
C10_FocusFollows ==
  ev.type \in {"ArrowRight", "ArrowLeft"} => focus = ActiveIndex

\* C11: in the tabs, the active pill has aria-selected 'true' and tabIndex 0,
\* every other pill aria-selected 'false' and tabIndex -1: exactly one pill
\* is tab-reachable.
C11_AriaFollowsActive ==
  widget = "tabs" =>
    /\ \A i \in Items :
         /\ aria[i] = (IF active[i] THEN "true" ELSE "false")
         /\ tabIdx[i] = (IF active[i] THEN 0 ELSE -1)
    /\ Cardinality({i \in Items : tabIdx[i] >= 0}) = 1

C11_Witness ==
  /\ widget = "tabs"
  /\ NItems = 3
  /\ ev.type = "ArrowRight"
  /\ aria = (0 :> "false" @@ 1 :> "true" @@ 2 :> "false")
  /\ tabIdx = (0 :> -1 @@ 1 :> 0 @@ 2 :> -1)

\* The least item the host markup marks 'active', 0 if it marks none.
firstMarked(m) ==
  IF \E i \in DOMAIN m : m[i]
    THEN CHOOSE i \in DOMAIN m : m[i] /\ \A k \in DOMAIN m : k < i => ~m[k]
    ELSE 0

\* C16: after construction the active index is that of the first item the
\* host markup marks 'active', or 0 if it marks none, and no other item is
\* marked.
C16_InitialIndex ==
  ev.type = "init" =>
    /\ ActiveIndex = firstMarked(pre.active)
    /\ ActiveSet = {firstMarked(pre.active)}

C16_Witness ==
  /\ ev.type = "init"
  /\ NItems = 3
  /\ pre.active = (0 :> FALSE @@ 1 :> TRUE @@ 2 :> TRUE)
  /\ active = (0 :> FALSE @@ 1 :> TRUE @@ 2 :> FALSE)

C16_WitnessNoneMarked ==
  /\ ev.type = "init"
  /\ \A i \in Items : ~pre.active[i]
  /\ ActiveIndex = 0

\* C17: every index the handlers pass to setActive (initialization, click,
\* arrow keys), and every index they use to pick the element to focus, is an
\* integer of 0..N-1.
C17_IndexInRange ==
  /\ lastSet \in 0..(NItems - 1)
  /\ ev.type \in SetEvents => (ev.arg \in 0..(NItems - 1) /\ lastSet = ev.arg)
  /\ (widget = "tabs" /\ ev.type \in {"ArrowRight", "ArrowLeft"}) => focus \in 0..(NItems - 1)

C17_Witness ==
  /\ widget = "tabs"
  /\ NItems = 3
  /\ ev = [type |-> "ArrowLeft", arg |-> 2]
  /\ run.start = 0
  /\ focus = 2

\* C18: a key other than ArrowRight and ArrowLeft changes neither the active
\* index, the markers, the panels, the indicator nor the focus, and throws
\* nothing.
C18_OtherKeysIgnored ==
  [][ ev'.type = "key"
        => (UNCHANGED <<active, aria, tabIdx, hidden, isActive, ind, focus, lastSet>> /\ ~threw') ]_vars

C18_Witness ==
  /\ ev.type = "key"
  /\ focus \in Items
  /\ focus # ActiveIndex
  /\ pre.set = lastSet

\* A required element is missing or empty: the container, the item list or
\* the indicator.
MissingElement == "wrap" \notin present \/ NItems = 0 \/ "indicator" \notin present

\* The markup has the panels the control looks up (tabs: at least one
\* .cap-panel; toggle: #do-panel and #dont-panel).
PanelsPresent == IF widget = "tabs" THEN NPanels >= 1 ELSE DOMAIN hidden = {0, 1}

\* C12: when the container, the item list or the indicator is missing or
\* empty, the constructor registers no handler, writes nothing to the DOM and
\* throws nothing (stated for markup that has its panels).
C12_MissingElementNoOp ==
  [][ (phase = "markup" /\ phase' = "ready" /\ MissingElement /\ PanelsPresent)
        => (listeners' = {} /\ UNCHANGED <<dom, ind>> /\ ~threw') ]_vars

\* C13: with container, items and indicator present and no panel, the
\* constructor does not throw and the control still manages index and
\* indicator: a click activates the clicked item and moves the indicator to it.
C13_WithoutPanels ==
  (phase = "ready" /\ ~MissingElement /\ DOMAIN hidden = {})
    => /\ ~threw
       /\ {"click", "keydown"} \subseteq listeners
       /\ Cardinality(ActiveSet) = 1
       /\ ev.type = "click" => (ActiveIndex = ev.arg /\ ind = measured(ev.arg))

\* C14: with zero items, neither the constructor nor any later key press,
\* click or resize changes a panel's visibility or the indicator, and none
\* throws (stated for markup that has its panels).
C14_ZeroItemsInert ==
  [][ (NItems = 0 /\ PanelsPresent) => (UNCHANGED <<hidden, isActive, ind>> /\ ~threw') ]_vars

\* C15 as claimed: geometry recomputation is coalesced per frame, so between
\* two animation frames the indicator's geometry is written at most once.
C15_OncePerFrame == writes <= 1

\* C15 as amended: nothing is deferred or coalesced.  Every resize, and in
\* the tabs every pointer-enter on a pill and every leave of the container,
\* reads the geometry and writes the indicator once, in its own handler, so
\* the writes since the last frame grow by one with each such event.
C15_SynchronousRecompute ==
  [][ /\ ev'.type = "resize"
          => (writes' = writes + 1 /\ ind' = measuredIn(layout', findIndex(active')))
      /\ (widget = "tabs" /\ ev'.type = "mouseenter" /\ ev'.arg \in Items)
          => (writes' = writes + 1 /\ ind' = measuredIn(layout', ev'.arg))
      /\ (widget = "tabs" /\ ev'.type = "mouseleave" /\ ev'.arg = -1)
          => (writes' = writes + 1 /\ ind' = measuredIn(layout', findIndex(active')))
    ]_vars

C15_Witness ==
  /\ ev.type = "resize"
  /\ writes = 2
  /\ pre.pointer \in Items
  /\ ind = measured(ActiveIndex)

\* C19: each function registered through onScroll runs at most once in an
\* animation frame, however many scroll events arrived before the frame.
C19_OncePerFrame ==
  /\ \A fn \in {"update", "parallax"} : frame.ran[fn] <= 1
  /\ Len(rafQueue) <= 1
  /\ ticking <=> rafQueue # <<>>

C19_Witness ==
  /\ frame.scrolls = MaxBurst
  /\ frame.ran["update"] = 1
  /\ bar = progress(scrollTop, scrollHeight)
  /\ scrollTop > 0

C19_WitnessParallax ==
  /\ frame.scrolls >= 2
  /\ frame.ran["parallax"] = 1

\* C20: once setOpen has run, aria-expanded is 'true' exactly when the link
\* list has class 'open' and exactly when html and body both have overflow
\* 'hidden'; after a click on a navigation link the menu is closed, and
\* after a resize to a width above 768 the menu is closed.
menuClosed == expanded # "true" /\ ~linksOpen /\ htmlOverflow = "" /\ bodyOverflow = ""
scrollLocked == htmlOverflow = "hidden" /\ bodyOverflow = "hidden"
C20_MenuConsistent ==
  setOpenRan =>
    /\ (expanded = "true") <=> linksOpen
    /\ linksOpen <=> scrollLocked
    /\ navEv = "link" => menuClosed
    /\ (navEv = "resize" /\ innerWidth > Desktop) => menuClosed

C20_Witness ==
  /\ setOpenRan
  /\ navEv = "hamburger"
  /\ expanded = "true"
  /\ linksOpen
  /\ scrollLocked

C20_WitnessResize ==
  /\ navEv = "resize"
  /\ innerWidth > Desktop
  /\ setOpenRan
  /\ menuClosed

\* C21: a resize leaves the indicator at the geometry the new layout gives
\* the active item, also when a hover preview showed another item before,
\* and changes neither the active index, the items' markers nor the panels.
C21_ResizeRecomputes ==
  [][ ev'.type = "resize"
        => /\ ind' = measuredIn(layout', ActiveIndex)
           /\ ~threw'
           /\ ActiveIndex' = ActiveIndex
           /\ UNCHANGED <<active, aria, tabIdx, hidden, isActive, lastSet>> ]_vars

C21_Witness ==
  /\ widget = "tabs"
  /\ ev.type = "resize"
  /\ pre.pointer \in Items /\ pre.pointer # ActiveIndex
  /\ pointer = pre.pointer
  /\ measured(pointer) # measured(ActiveIndex)
  /\ ind = measured(ActiveIndex)

C21_WitnessToggle ==
  /\ widget = "toggle"
  /\ ev.type = "resize"
  /\ ActiveIndex = 1
  /\ ind = measured(1)
  /\ ind.width > 0

\* C22: with the progress bar and the parallax both initialised, every
\* scroll event is eventually followed by a run of the progress bar's update
\* and by a run of the parallax's scroll callback, each reading a scroll
\* position at least as recent as the event, as long as frames keep firing.
C22_NoStarvation ==
  \A fn \in {"update", "parallax"} :
    (hasBar /\ hasLayers /\ fn \in owed) ~> (fn \notin owed)

\* The part of C22 that is about the progress bar alone.
C22_UpdateNotStarved == (hasBar /\ hasLayers /\ "update" \in owed) ~> ("update" \notin owed)

\* With the bar present the parallax's scroll callback is never requested.
C22_ParallaxNeverRuns == (hasBar /\ hasLayers) => frame.ran["parallax"] = 0

\* C23: an intro that is shown is eventually removed with the root's
\* overflow back at its value from before the intro; once an intro without
\* ?intro has finished, a later load without ?intro removes the intro at
\* once and does not lock scrolling; a load with ?intro shows the intro, and
\* nothing in it writes the 'oky:introSeen' flag.
C23_IntroOnce ==
  /\ (intro \in {"shown", "exit"}) ~> (intro = "removed" /\ htmlOverflow = before)
  /\ []((finished /\ introEv = "load" /\ ~forceIntro)
          => (intro = "removed" /\ htmlOverflow = before /\ timer = NoTimer))
  /\ []((hasIntro /\ forceIntro /\ introEv = "load")
          => (intro = "shown" /\ htmlOverflow = "hidden" /\ timer.fn = "finish"))
  /\ [][forceIntro' => introSeen' = introSeen]_vars

C23_Witness ==
  /\ finished
  /\ forceIntro
  /\ introEv = "remove"
  /\ intro = "removed"
  /\ before = "hidden"
  /\ htmlOverflow = "hidden"
  /\ introSeen = "true"

C23_WitnessSkipped ==
  /\ finished
  /\ hasIntro /\ ~forceIntro
  /\ introEv = "load"
  /\ loads > 1
  /\ intro = "removed"

\* C24: for every non-empty list of words, words of length 0 or 1 included,
\* the character counter j stays within 0..length of the current word, and
\* when the timer keeps firing every word of the list is displayed in full
\* again and again, in list order, cyclically.
inFull(k) == k \in DOMAIN words /\ text = [word |-> k, len |-> words[k]]
C24_Typewriter ==
  /\ [](0 <= tj /\ tj <= words[ti + 1])
  /\ \A k \in 1..MaxWords : []<>(k \in DOMAIN words => inFull(k))
  /\ [][lastFull' # lastFull => lastFull' = (lastFull % Len(words)) + 1]_vars

\* The counter part of C24 alone.
C24_CounterInRange == 0 <= tj /\ tj <= words[ti + 1]

\* The display part of C24 alone.
C24_EveryWordShown == \A k \in 1..MaxWords : []<>(k \in DOMAIN words => inFull(k))

\* What does hold: a list without an empty word keeps the counter in range
\* and shows every word in full, in order, again and again.
noEmptyWord == \A k \in DOMAIN words : words[k] > 0
C24_WithoutEmptyWords ==
  /\ [](noEmptyWord => (0 <= tj /\ tj <= words[ti + 1]))
  /\ \A k \in 1..MaxWords : []<>((noEmptyWord /\ k \in DOMAIN words) => inFull(k))
  /\ [][(noEmptyWord /\ lastFull' # lastFull) => lastFull' = (lastFull % Len(words)) + 1]_vars

C24_WitnessOneLetter ==
  /\ Len(words) = 2
  /\ words[1] = 1 /\ words[2] > 1
  /\ inFull(1)
  /\ lastFull = 1
  /\ typeDelay = 400

\* The counter after the typewriter has reached an empty word.
C24_Runaway ==
  /\ words[ti + 1] = 0
  /\ tj = MaxChars
====
